---- MODULE Spec2Model ----
(***************************************************************************)
(* A model of StarWenJuan.py: the response sanitizer (clean_response),     *)
(* the bounded-retry LLM wrappers (generate_persona, ask_ai_for_answer),   *)
(* the question dispatcher (brush) and the multi-threaded session loop     *)
(* (run) with its shared counters cur_num / cur_fail.                      *)
(*                                                                         *)
(* Strings are sequences of chunks.  The chunks "<", "/" and "think>" are  *)
(* pieces of the two markers the code looks for:                           *)
(*     "<think>"  = "<" "think>"        "</think>" = "<" "/" "think>"      *)
(* so that an input can hold a marker split by another marker.  Every      *)
(* other chunk is one character.                                           *)
(***************************************************************************)
EXTENDS Integers, Sequences, FiniteSets, TLC

\* ------------------------------------------------------------------------
\* Bounds of the model
\* ------------------------------------------------------------------------
MaxLen == 5
MaxThreads == 2
MaxTarget == 1
MaxTargetSingle == 8
MaxRetries == 2
MaxReplyLen == 3
MaxPages == 2
MaxPerPage == 2
MaxOptions == 3

\* ------------------------------------------------------------------------
\* Strings
\* ------------------------------------------------------------------------
ThinkOpen == <<"<", "think>">>
ThinkClose == <<"<", "/", "think>">>

Whitespace == {" ", "\n"}
Digits == {"1", "2", "3", "4", "7", "9"}

SanAlphabet == {"<", "/", "think>", "a", " ", "\n"}

RECURSIVE StringsUpTo(_, _)
StringsUpTo(alphabet, n) ==
    IF n = 0 THEN {<<>>}
    ELSE LET shorter == StringsUpTo(alphabet, n - 1)
         IN  shorter \cup {Append(s, c) : s \in {t \in shorter : Len(t) = n - 1}, c \in alphabet}

\* len(s): the number of characters of a chunk sequence
ChunkLen(c) == IF c = "think>" THEN 6 ELSE 1

RECURSIVE CharLen(_)
CharLen(s) == IF s = <<>> THEN 0 ELSE ChunkLen(Head(s)) + CharLen(Tail(s))

\* m occurs in s at position i
OccursAt(s, i, m) ==
    /\ i >= 1
    /\ i + Len(m) - 1 <= Len(s)
    /\ \A j \in 1..Len(m) : s[i + j - 1] = m[j]

\* first position >= i where m occurs in s, 0 when there is none
FindFrom(s, i, m) ==
    LET hits == {k \in i..Len(s) : OccursAt(s, k, m)}
    IN  IF hits = {} THEN 0 ELSE CHOOSE k \in hits : \A h \in hits : k <= h

Contains(s, m) == FindFrom(s, 1, m) # 0

Suffix(s, i) == IF i > Len(s) THEN <<>> ELSE SubSeq(s, i, Len(s))
Prefix(s, i) == IF i < 1 THEN <<>> ELSE SubSeq(s, 1, i)

\* str.strip()
RECURSIVE LStrip(_)
LStrip(s) == IF s # <<>> /\ Head(s) \in Whitespace THEN LStrip(Tail(s)) ELSE s

RECURSIVE RStrip(_)
RStrip(s) ==
    IF s # <<>> /\ s[Len(s)] \in Whitespace THEN RStrip(Prefix(s, Len(s) - 1)) ELSE s

Strip(s) == RStrip(LStrip(s))

StartsWith(s, m) == OccursAt(s, 1, m)

\* re.sub(r"<think>.*?</think>", "", s, flags=re.DOTALL), scanning from i:
\* the leftmost "<think>" that has a "</think>" after it is removed together
\* with everything up to the nearest such "</think>"; the scan goes on after it
RECURSIVE RemovePairedFrom(_, _)
RemovePairedFrom(s, i) ==
    LET o == FindFrom(s, i, ThinkOpen)
        c == IF o = 0 THEN 0 ELSE FindFrom(s, o + Len(ThinkOpen), ThinkClose)
    IN  IF c = 0 THEN Suffix(s, i)
        ELSE SubSeq(s, i, o - 1) \o RemovePairedFrom(s, c + Len(ThinkClose))

RemovePaired(s) == RemovePairedFrom(s, 1)

\* re.sub(r"<think>.*", "", s, flags=re.DOTALL)
RemoveOpenTail(s) ==
    LET o == FindFrom(s, 1, ThinkOpen)
    IN  IF o = 0 THEN s ELSE Prefix(s, o - 1)

\* re.sub(r"</think>", "", s): one left-to-right pass over the input
RECURSIVE RemoveCloseFrom(_, _)
RemoveCloseFrom(s, i) ==
    LET c == FindFrom(s, i, ThinkClose)
    IN  IF c = 0 THEN Suffix(s, i)
        ELSE SubSeq(s, i, c - 1) \o RemoveCloseFrom(s, c + Len(ThinkClose))

RemoveClose(s) == RemoveCloseFrom(s, 1)

\* the end of the match of r"\n\s*\n" that starts at i (s[i] = "\n"):
\* the last "\n" of the whitespace run after i, 0 when the run holds none
BlankRunEnd(s, i) ==
    LET ends == {j \in (i + 1)..Len(s) :
                    /\ s[j] = "\n"
                    /\ \A k \in (i + 1)..j : s[k] \in Whitespace}
    IN  IF ends = {} THEN 0 ELSE CHOOSE j \in ends : \A e \in ends : e <= j

\* re.sub(r"\n\s*\n", "\n", s)
RECURSIVE CollapseBlankFrom(_, _)
CollapseBlankFrom(s, i) ==
    IF i > Len(s) THEN <<>>
    ELSE IF s[i] = "\n" /\ BlankRunEnd(s, i) # 0
         THEN <<"\n">> \o CollapseBlankFrom(s, BlankRunEnd(s, i) + 1)
         ELSE <<s[i]>> \o CollapseBlankFrom(s, i + 1)

CollapseBlank(s) == CollapseBlankFrom(s, 1)

\* the guard of the early return: only reasoning, never closed
OnlyThinking(s) == StartsWith(Strip(s), ThinkOpen) /\ ~Contains(s, ThinkClose)

clean_response(response_text) ==
    IF OnlyThinking(response_text) THEN <<>>
    ELSE Strip(CollapseBlank(Strip(RemoveClose(RemoveOpenTail(RemovePaired(response_text))))))

\* ------------------------------------------------------------------------
\* State
\* ------------------------------------------------------------------------
VARIABLES
    \* clean_response applied once and twice to a raw completion
    san_pc, raw, cleaned, recleaned,
    \* __main__: the inputs and the globals shared by the threads
    target_num, num_threads, cur_num, cur_fail, lock,
    \* run: per-thread position, the value loaded by "cur_num += 1" /
    \* "cur_fail += 1", whether the thread's browser context is open
    pc, reg, ctx_open,
    \* history: wait_for_completion calls that returned True, sessions that
    \* ended in the except clause
    det_true, exc_count,
    \* generate_persona / ask_ai_for_answer: the function running, the
    \* configured max_retries, the loop variable, the question type, the
    \* number of requests sent to the LLM, the value returned
    syn_pc, callee, max_retries, attempt, question_type, requests, result,
    \* brush: the page counts detect returned, the page and question loop
    \* variables, the type of the question being answered, what went wrong
    \* while answering it, the matrix rows still to answer, and the calls
    \* made in this session, in order
    q_list, page_i, k, current, q_type, fault, rows_left, calls,
    \* one call of a question handler: where it is, the handler, the answers
    \* ask_ai_for_answer gave it, the number of options (columns, inputs,
    \* items) and of matrix rows on the page, and how the call ended
    h_pc, h_name, h_asked, h_count, h_rows, h_out,
    \* one call of wait_for_completion: where it is, max_wait_time and the
    \* time since start_time in hundredths of a second, the completion
    \* signals the page shows, the value returned, the polls made, the first
    \* poll at which the page showed a signal, whether a read of the page raised
    w_pc, w_max, w_elapsed, w_page, w_result, w_polls, w_first, w_raised

sanVars == <<san_pc, raw, cleaned, recleaned>>
mainVars == <<target_num, num_threads, cur_num, cur_fail, lock>>
runVars == <<pc, reg, ctx_open, det_true, exc_count>>
synVars == <<syn_pc, callee, max_retries, attempt, question_type, requests, result>>
brushVars == <<q_list, page_i, k, current, q_type, fault, rows_left, calls>>
handlerVars == <<h_pc, h_name, h_asked, h_count, h_rows, h_out>>
waitVars == <<w_pc, w_max, w_elapsed, w_page, w_result, w_polls, w_first, w_raised>>
vars == <<sanVars, mainVars, runVars, synVars, brushVars, handlerVars, waitVars>>

Threads == 1..num_threads

\* ------------------------------------------------------------------------
\* clean_response on every raw completion up to MaxLen chunks
\* ------------------------------------------------------------------------
SanIdle == san_pc = "idle" /\ raw = <<>> /\ cleaned = <<>> /\ recleaned = <<>>

SanInit ==
    /\ san_pc = "raw"
    /\ raw \in StringsUpTo(SanAlphabet, MaxLen)
    /\ cleaned = <<>>
    /\ recleaned = <<>>

\* clean_response on texts that hold a reasoning span: <think>, a content of
\* up to MaxSpanTokens tokens (a marker, the character "a" or a newline),
\* </think>; around the span the text has no "a"
MaxSpanTokens == 4

SpanTokens == {ThinkOpen, ThinkClose, <<"a">>, <<"\n">>}

RECURSIVE SpanContents(_)
SpanContents(n) ==
    IF n = 0 THEN {<<>>}
    ELSE LET shorter == SpanContents(n - 1)
         IN  shorter \cup {c \o t : c \in shorter, t \in SpanTokens}

Outside == {<<>>, <<"b">>, <<" ">>}

SpanInputs ==
    {before \o ThinkOpen \o content \o ThinkClose \o after :
        before \in Outside, content \in SpanContents(MaxSpanTokens), after \in Outside}

SpanInit ==
    /\ san_pc = "raw"
    /\ raw \in SpanInputs
    /\ cleaned = <<>>
    /\ recleaned = <<>>

CleanOnce ==
    /\ san_pc = "raw"
    /\ cleaned' = clean_response(raw)
    /\ san_pc' = "cleaned"
    /\ UNCHANGED <<handlerVars, waitVars, raw, recleaned, mainVars, runVars, synVars, brushVars>>

CleanTwice ==
    /\ san_pc = "cleaned"
    /\ recleaned' = clean_response(cleaned)
    /\ san_pc' = "recleaned"
    /\ UNCHANGED <<handlerVars, waitVars, raw, cleaned, mainVars, runVars, synVars, brushVars>>

\* ------------------------------------------------------------------------
\* generate_persona and ask_ai_for_answer: the bounded retry loops
\* ------------------------------------------------------------------------
MinPersonaLen == 20

\* n characters of plain text
Filler(n) == [i \in 1..n |-> "a"]

\* "一个普通的大学生，性格开朗，喜欢学习和运动": 21 characters
DefaultPersona == [i \in 1..21 |-> "d"]

\* what one LLM request gives: an exception (request error, no content) or text
Failure == [err |-> TRUE, text |-> <<>>]
Reply(text) == [err |-> FALSE, text |-> text]

\* a Python value: None or a str
None == [none |-> TRUE, text |-> <<>>]
Str(text) == [none |-> FALSE, text |-> text]

PersonaTexts ==
    {Filler(n) : n \in {0, MinPersonaLen - 1, MinPersonaLen}}
        \cup {<<" ">> \o Filler(MinPersonaLen - 1) \o <<"\n">>,
              ThinkOpen \o Filler(MinPersonaLen),
              ThinkOpen \o Filler(MinPersonaLen) \o ThinkClose \o Filler(MinPersonaLen - 1),
              ThinkOpen \o Filler(3) \o ThinkClose \o Filler(MinPersonaLen)}

AnswerAlphabet == {"3", "a", " ", "<", "/", "think>"}
AnswerTexts == StringsUpTo(AnswerAlphabet, MaxReplyLen)

SelectionTypes == {"single", "scale", "matrix", "dropdown"}
PromptTypes == SelectionTypes \cup {"multiple", "text", "numeric_matrix"}
\* "score" stands for any question_type ask_ai_for_answer has no prompt for
QuestionTypes == PromptTypes \cup {"score"}

\* response.choices[0].message.content.strip() through clean_response
Sanitized(text) == clean_response(Strip(text))

\* if len(persona) < 20: ... continue
PersonaTooShort(persona) == CharLen(persona) < MinPersonaLen

\* re.search(r"\d", answer)
HasDigit(answer) == \E i \in 1..Len(answer) : answer[i] \in Digits

\* if not answer or len(answer.strip()) == 0: ... continue
AnswerEmpty(answer) == answer = <<>> \/ Strip(answer) = <<>>

\* the format check of the selection types
SelectionUnchecked(qtype, answer) == FALSE
SelectionRejected(qtype, answer) == qtype \in SelectionTypes /\ ~HasDigit(answer)

\* the default answer after the loop
FallbackSame(qtype) == <<"1">>
FallbackAnswer(qtype) == IF qtype = "text" THEN <<"无">> ELSE <<"1">>

SynIdle ==
    /\ syn_pc = "idle" /\ callee = "" /\ max_retries = 0 /\ attempt = 0
    /\ question_type = "" /\ requests = 0 /\ result = None

\* a call of generate_persona() or of ask_ai_for_answer(_, _, question_type, _)
SynInit ==
    /\ max_retries \in 1..MaxRetries
    /\ attempt = 0
    /\ requests = 0
    /\ result = None
    /\ syn_pc = "loop"
    /\ \/ callee = "generate_persona" /\ question_type = ""
       \/ callee = "ask_ai_for_answer" /\ question_type \in QuestionTypes

SynReturn(value) ==
    /\ syn_pc' = "returned"
    /\ result' = value
    /\ UNCHANGED attempt

SynContinue ==
    /\ attempt' = attempt + 1
    /\ UNCHANGED <<syn_pc, result>>

\* one iteration of "for attempt in range(max_retries)" in generate_persona
PersonaAttempt ==
    /\ syn_pc = "loop"
    /\ callee = "generate_persona"
    /\ attempt < max_retries
    /\ requests' = requests + 1
    /\ \E reply \in {Failure} \cup {Reply(t) : t \in PersonaTexts} :
          IF reply.err
          THEN IF attempt = max_retries - 1
               THEN SynReturn(Str(DefaultPersona))
               ELSE SynContinue
          ELSE IF PersonaTooShort(Sanitized(reply.text))
               THEN SynContinue
               ELSE SynReturn(Str(Sanitized(reply.text)))
    /\ UNCHANGED <<handlerVars, waitVars, sanVars, mainVars, runVars, brushVars, callee, max_retries, question_type>>

\* the loop of generate_persona ends and the function has no return after it
PersonaLoopEnd ==
    /\ syn_pc = "loop"
    /\ callee = "generate_persona"
    /\ attempt >= max_retries
    /\ SynReturn(None)
    /\ UNCHANGED <<handlerVars, waitVars, sanVars, mainVars, runVars, brushVars, callee, max_retries, question_type, requests>>

\* one iteration of "for attempt in range(max_retries)" in ask_ai_for_answer
AnswerAttempt ==
    /\ syn_pc = "loop"
    /\ callee = "ask_ai_for_answer"
    /\ attempt < max_retries
    /\ IF question_type \notin PromptTypes
       THEN /\ SynReturn(Str(<<"1">>))
            /\ UNCHANGED requests
       ELSE /\ requests' = requests + 1
            /\ \E reply \in {Failure} \cup {Reply(t) : t \in AnswerTexts} :
                  IF reply.err
                  THEN SynContinue
                  ELSE IF \/ AnswerEmpty(Sanitized(reply.text))
                          \/ SelectionRejected(question_type, Sanitized(reply.text))
                       THEN SynContinue
                       ELSE SynReturn(Str(Sanitized(reply.text)))
    /\ UNCHANGED <<handlerVars, waitVars, sanVars, mainVars, runVars, brushVars, callee, max_retries, question_type>>

\* after the loop of ask_ai_for_answer: the default answer
AnswerLoopEnd ==
    /\ syn_pc = "loop"
    /\ callee = "ask_ai_for_answer"
    /\ attempt >= max_retries
    /\ SynReturn(Str(FallbackAnswer(question_type)))
    /\ UNCHANGED <<handlerVars, waitVars, sanVars, mainVars, runVars, brushVars, callee, max_retries, question_type, requests>>

\* ------------------------------------------------------------------------
\* The question handlers: what a handler does to the page, given the answer
\* of ask_ai_for_answer and what the page holds
\* ------------------------------------------------------------------------
DigitValue(c) ==
    CASE c = "1" -> 1 [] c = "2" -> 2 [] c = "3" -> 3 [] c = "4" -> 4 [] c = "7" -> 7
      [] c = "9" -> 9

RECURSIVE DecimalValue(_)
DecimalValue(s) ==
    IF s = <<>> THEN 0
    ELSE 10 * DecimalValue(Prefix(s, Len(s) - 1)) + DigitValue(s[Len(s)])

\* int(answer) raises ValueError unless the text is digits in whitespace
IsInt(answer) ==
    /\ Strip(answer) # <<>>
    /\ \A i \in 1..Len(Strip(answer)) : Strip(answer)[i] \in Digits

IntOf(answer) == DecimalValue(Strip(answer))

\* answer.split(",")
RECURSIVE SplitComma(_)
SplitComma(s) ==
    LET c == FindFrom(s, 1, <<",">>)
    IN  IF c = 0 THEN <<s>> ELSE <<Prefix(s, c - 1)>> \o SplitComma(Suffix(s, c + 1))

\* one page action: a click on the idx-th option (column, list item) or a
\* fill of the idx-th input with a number or a text
Click(idx) == [op |-> "click", idx |-> idx, num |-> 0, text |-> <<>>]
FillText(text) == [op |-> "fill", idx |-> 1, num |-> 0, text |-> text]
FillNumber(idx, num) == [op |-> "fill", idx |-> idx, num |-> num, text |-> <<>>]

\* what a handler call ends with: it returns or raises, after the page
\* actions acts; fault is the first thing that went wrong on the way
NoFault == "none"
ParseFailure == "parse failure"
ClickMissing == "click target missing"
SelectorMissing == "selector not found"

Returns(acts, why) == [raised |-> FALSE, acts |-> acts, fault |-> why]
Raises(acts, why) == [raised |-> TRUE, acts |-> acts, fault |-> why]

\* the except clause of single, droplist, scale and multiple: click option 1
\* with no handler around it
FallbackClick(acts, fallback, why) ==
    {Returns(acts \o <<Click(fallback)>>, why), Raises(acts, why)}

\* the try block of single, droplist and scale (first = 1) and of a matrix
\* row (first = 2): the option the answer names if it is in first..count,
\* else option first; page.click may raise
ChosenUnchecked(answer, first, count) == IntOf(answer)
ChosenOption(answer, first, count) ==
    IF first <= IntOf(answer) /\ IntOf(answer) <= count THEN IntOf(answer) ELSE first

ChooseOne(answer, first, count) ==
    IF IsInt(answer)
    THEN {Returns(<<Click(ChosenOption(answer, first, count))>>, NoFault)}
            \cup FallbackClick(<<>>, first, ClickMissing)
    ELSE FallbackClick(<<>>, first, ParseFailure)

\* vacant: page.fill(f"#q{current}", answer), with no handler around it
vacant(answer) == {Returns(<<FillText(answer)>>, NoFault), Raises(<<>>, SelectorMissing)}

single(answer, count) == ChooseOne(answer, 1, count)

scale(answer, count) == ChooseOne(answer, 1, count)

\* droplist: the click that opens the list is outside the try block
droplist(answer, count) == {Raises(<<>>, ClickMissing)} \cup ChooseOne(answer, 1, count)

\* one row of matrix
matrix_row_from_first(answer, count) == ChooseOne(answer, 1, count)
matrix_row(answer, count) == ChooseOne(answer, 2, count)

\* multiple: choices = [int(x.strip()) for x in answer.split(",")], then a
\* click on every choice in 1..count, in order
InRangeUnchecked(choices, count) == choices
InRange(choices, count) == SelectSeq(choices, LAMBDA c : 1 <= c /\ c <= count)

multiple(answer, count) ==
    LET pieces == SplitComma(answer)
        parsed == \A i \in 1..Len(pieces) : IsInt(pieces[i])
        choices == [i \in 1..Len(pieces) |-> IntOf(pieces[i])]
        valid == InRange(choices, count)
        clicks == [i \in 1..Len(valid) |-> Click(valid[i])]
    IN  IF parsed
        THEN {Returns(clicks, NoFault)}
                \cup UNION {FallbackClick(Prefix(clicks, m), 1, ClickMissing) :
                               m \in 0..(Len(valid) - 1)}
        ELSE FallbackClick(<<>>, 1, ParseFailure)

\* q_type 8: page.fill(f"#q{current}", str(random.randint(1, 100)))
ScoreLow == 1
ScoreHigh == 100
score == {Returns(<<FillNumber(1, v)>>, NoFault) : v \in {ScoreLow, ScoreHigh}}
            \cup {Raises(<<>>, SelectorMissing)}

\* random.randint(j, len(a)): any of the positions j..count
PickAny(j, count) == 1..count
PickRange(j, count) == j..count

\* reorder: for j in 1..count a click on item random.randint(j, count)
RECURSIVE ReorderPicks(_, _)
ReorderPicks(j, count) ==
    IF j > count THEN {<<>>}
    ELSE {<<b>> \o rest : b \in PickRange(j, count), rest \in ReorderPicks(j + 1, count)}

reorder(count) ==
    LET picks == ReorderPicks(1, count)
        Clicks(p) == [i \in 1..Len(p) |-> Click(p[i])]
    IN  {Returns(Clicks(p), NoFault) : p \in picks}
            \cup {Raises(Clicks(Prefix(p, m)), ClickMissing) :
                     p \in picks, m \in 0..(count - 1)}

\* numeric_matrix: the numbers of the answer clamped into 0..10, padded with
\* random.randint(1, 8), cut to the number of inputs and filled in; when a
\* fill raises, every input is filled with random.randint(1, 8)
ClampLow == 0
ClampHigh == 10
PadLow == 1
PadHigh == 8

\* max(0, min(10, num))
Unclamped(num) == num
Clamp(num) == IF num < ClampLow THEN ClampLow ELSE IF num > ClampHigh THEN ClampHigh ELSE num

\* x.strip().replace(".", "").isdigit()
IsDigits(piece) ==
    /\ Strip(piece) # <<>>
    /\ \A i \in 1..Len(Strip(piece)) : Strip(piece)[i] \in Digits

\* n draws of random.randint(1, 8), each one of the values in draws
RECURSIVE RandomFills(_, _)
RandomFills(n, draws) ==
    IF n = 0 THEN {<<>>}
    ELSE {Append(rest, v) : rest \in RandomFills(n - 1, draws), v \in draws}

numeric_matrix(answer, inputs, draws) ==
    LET pieces == SelectSeq(SplitComma(answer), IsDigits)
        numbers == [i \in 1..Len(pieces) |-> Clamp(IntOf(pieces[i]))]
        Padded(pad) == Prefix(numbers \o pad, inputs)
        Fills(values) == [i \in 1..Len(values) |-> FillNumber(i, values[i])]
        pads == RandomFills(IF Len(numbers) < inputs THEN inputs - Len(numbers) ELSE 0,
                            draws)
    IN  IF inputs = 0 THEN {Returns(<<>>, SelectorMissing)}
        ELSE {Returns(Fills(Padded(pad)), NoFault) : pad \in pads}
                \cup {Returns(Fills(Prefix(Padded(pad), m)) \o Fills(again), SelectorMissing) :
                         pad \in pads, m \in 0..(inputs - 1), again \in RandomFills(inputs, draws)}
                \cup {Raises(Fills(Prefix(Padded(pad), m)) \o Fills(Prefix(again, r)),
                             SelectorMissing) :
                         pad \in pads, m \in 0..(inputs - 1),
                         again \in RandomFills(inputs, draws), r \in 0..(inputs - 1)}

\* ------------------------------------------------------------------------
\* __main__ and run: the threads and the shared counters
\* ------------------------------------------------------------------------
RunIdle ==
    /\ target_num = 0 /\ num_threads = 0 /\ cur_num = 0 /\ cur_fail = 0 /\ lock = 0
    /\ pc = <<>> /\ reg = <<>> /\ ctx_open = <<>>
    /\ det_true = 0 /\ exc_count = 0

\* "cur_fail >= fail_threshold" with fail_threshold = target_num / 4 + 1,
\* Python's true division: f >= t/4 + 1 iff 4f >= t + 4
ThresholdReachedFloor(f, t) == f >= (t \div 4) + 1
ThresholdReached(f, t) == 4 * f >= t + 4

\* __main__ asks again until target_num > 0 and 1 <= num_threads <= 5
MinTarget == 1
MinThreads == 1

\* the loop condition of run
LoopCondition == cur_num < target_num

\* threads started by __main__ with the globals cur_num = cur_fail = 0
MainInit(threads, target) ==
    /\ num_threads = threads
    /\ target_num = target
    /\ cur_num = 0
    /\ cur_fail = 0
    /\ lock = 0
    /\ pc = [w \in 1..threads |-> "loop"]
    /\ reg = [w \in 1..threads |-> 0]
    /\ ctx_open = [w \in 1..threads |-> FALSE]
    /\ det_true = 0
    /\ exc_count = 0

\* thread w was started and is at the step named label
At(w, label) == w \in Threads /\ pc[w] = label

Goto(w, to) == pc' = [pc EXCEPT ![w] = to]

\* while cur_num < target_num: ...; after the loop browser.close() and run returns
LoopTest(w) ==
    /\ At(w, "loop")
    /\ Goto(w, IF LoopCondition THEN "new_context" ELSE "done")
    /\ UNCHANGED <<handlerVars, waitVars, sanVars, synVars, brushVars, mainVars, reg, ctx_open, det_true, exc_count>>

\* browser.new_context, new_page, add_init_script
NewContext(w) ==
    /\ At(w, "new_context")
    /\ ctx_open' = [ctx_open EXCEPT ![w] = TRUE]
    /\ Goto(w, "goto_brush")
    /\ UNCHANGED <<handlerVars, waitVars, sanVars, synVars, brushVars, mainVars, reg, det_true, exc_count>>

\* page.goto(url); original_url = page.url; brush(page): returns or raises
GotoBrush(w) ==
    /\ At(w, "goto_brush")
    /\ \E raised \in BOOLEAN :
          Goto(w, IF raised THEN "except" ELSE "wait_for_completion")
    /\ UNCHANGED <<handlerVars, waitVars, sanVars, synVars, brushVars, mainVars, reg, ctx_open, det_true, exc_count>>

\* if wait_for_completion(page, original_url): it returns True or False
WaitForCompletion(w) ==
    /\ At(w, "wait_for_completion")
    /\ \E done \in BOOLEAN :
          /\ Goto(w, IF done THEN "num_load" ELSE "warn")
          /\ det_true' = IF done THEN det_true + 1 ELSE det_true
    /\ UNCHANGED <<handlerVars, waitVars, sanVars, synVars, brushVars, mainVars, reg, ctx_open, exc_count>>

\* cur_num += 1 is a load and a store of the global, with no lock held
NumLoad(w) ==
    /\ At(w, "num_load")
    /\ reg' = [reg EXCEPT ![w] = cur_num]
    /\ Goto(w, "num_store")
    /\ UNCHANGED <<handlerVars, waitVars, sanVars, synVars, brushVars, mainVars, ctx_open, det_true, exc_count>>

\* then final_url = page.url and the two log lines, which end or raise
NumStore(w) ==
    /\ At(w, "num_store")
    /\ cur_num' = reg[w] + 1
    /\ \E raised \in BOOLEAN : Goto(w, IF raised THEN "except" ELSE "context_close")
    /\ UNCHANGED <<handlerVars, waitVars, sanVars, synVars, brushVars, target_num, num_threads, cur_fail, lock, reg, ctx_open,
                   det_true, exc_count>>

\* after the else branch of "if wait_for_completion(...)" comes context.close()
SoftFailureCounted == "except"
SoftFailureNext == "context_close"

\* logger.warning("提交可能失败或超时")
Warn(w) ==
    /\ At(w, "warn")
    /\ Goto(w, SoftFailureNext)
    /\ UNCHANGED <<handlerVars, waitVars, sanVars, synVars, brushVars, mainVars, reg, ctx_open, det_true, exc_count>>

\* context.close() returned: the session is closed
CloseSkipped(open) == open
AfterClose(open) == FALSE

\* context.close() at the end of the try block: done or raised
ContextClose(w) ==
    /\ At(w, "context_close")
    /\ \/ /\ ctx_open' = [ctx_open EXCEPT ![w] = AfterClose(ctx_open[w])]
          /\ Goto(w, "loop")
       \/ /\ Goto(w, "except")
          /\ UNCHANGED ctx_open
    /\ UNCHANGED <<handlerVars, waitVars, sanVars, synVars, brushVars, mainVars, reg, det_true, exc_count>>

\* lock.acquire() waits until no thread holds the lock
LockIgnored(holder) == TRUE
LockAvailable(holder) == holder = 0

\* except Exception: traceback.print_exc(); lock.acquire()
LockAcquire(w) ==
    /\ At(w, "except")
    /\ LockAvailable(lock)
    /\ lock' = w
    /\ exc_count' = exc_count + 1
    /\ Goto(w, "fail_load")
    /\ UNCHANGED <<handlerVars, waitVars, sanVars, synVars, brushVars, target_num, num_threads, cur_num, cur_fail, reg, ctx_open,
                   det_true>>

\* cur_fail += 1, with the lock held
FailLoad(w) ==
    /\ At(w, "fail_load")
    /\ reg' = [reg EXCEPT ![w] = cur_fail]
    /\ Goto(w, "fail_store")
    /\ UNCHANGED <<handlerVars, waitVars, sanVars, synVars, brushVars, mainVars, ctx_open, det_true, exc_count>>

FailStore(w) ==
    /\ At(w, "fail_store")
    /\ cur_fail' = reg[w] + 1
    /\ Goto(w, "lock_release")
    /\ UNCHANGED <<handlerVars, waitVars, sanVars, synVars, brushVars, target_num, num_threads, cur_num, lock, reg, ctx_open,
                   det_true, exc_count>>

\* lock.release(): the lock is free again
LockNeverReleased(holder) == holder
LockAfterRelease(holder) == 0

LockRelease(w) ==
    /\ At(w, "lock_release")
    /\ lock' = LockAfterRelease(lock)
    /\ Goto(w, "check_fail")
    /\ UNCHANGED <<handlerVars, waitVars, sanVars, synVars, brushVars, target_num, num_threads, cur_num, cur_fail, reg, ctx_open,
                   det_true, exc_count>>

\* if cur_fail >= fail_threshold (the global is read again, after the release):
\* context.close(); browser.close(); quit(), and SystemExit ends this thread;
\* otherwise context.close(); continue
CheckFail(w) ==
    /\ At(w, "check_fail")
    /\ ctx_open' = [ctx_open EXCEPT ![w] = AfterClose(ctx_open[w])]
    /\ Goto(w, IF ThresholdReached(cur_fail, target_num) THEN "quit" ELSE "loop")
    /\ UNCHANGED <<handlerVars, waitVars, sanVars, synVars, brushVars, mainVars, reg, det_true, exc_count>>

\* the steps of run that do not depend on what brush does
RunStep(w) ==
    \/ LoopTest(w) \/ NewContext(w) \/ WaitForCompletion(w)
    \/ NumLoad(w) \/ NumStore(w) \/ Warn(w) \/ ContextClose(w)
    \/ LockAcquire(w) \/ FailLoad(w) \/ FailStore(w) \/ LockRelease(w)
    \/ CheckFail(w)

\* ------------------------------------------------------------------------
\* brush and submit, run by the one thread of a single-window run
\* ------------------------------------------------------------------------
BrushIdle ==
    /\ q_list = <<>> /\ page_i = 0 /\ k = 0 /\ current = 0
    /\ q_type = "" /\ fault = NoFault /\ rows_left = 0 /\ calls = <<>>

\* the type attribute of a question; "9" stands for every unsupported code
TypeCodes == {"1", "2", "3", "4", "5", "6", "7", "8", "9", "10", "11"}

\* the page counts detect can return
QLists == UNION {[1..n -> 0..MaxPerPage] : n \in 0..MaxPages}

\* texts the LLM may give for a question of the survey
SurveyTexts ==
    {<<"3">>, <<"9">>, <<"a">>, <<"a", "3">>, <<"2", ",", "3", ",", "9">>,
     ThinkOpen \o <<"a">>}

\* the values ask_ai_for_answer can return for them
AskAnswers(qtype) ==
    {Sanitized(t) : t \in {u \in SurveyTexts :
                              /\ ~AnswerEmpty(Sanitized(u))
                              /\ ~SelectionRejected(qtype, Sanitized(u))}}
        \cup {FallbackAnswer(qtype)}

\* the handler brush calls for a type code, on a page with count options
\* (inputs, items): ask_ai_for_answer, then the page actions; how a call
\* ends does not depend on the numbers random.randint draws, so one value
\* stands for them here
Handler(code, count) ==
    CASE code \in {"1", "2"} -> UNION {vacant(a) : a \in AskAnswers("text")}
      [] code = "3" -> UNION {single(a, count) : a \in AskAnswers("single")}
      [] code = "4" -> UNION {multiple(a, count) : a \in AskAnswers("multiple")}
      [] code = "5" -> UNION {scale(a, count) : a \in AskAnswers("scale")}
      [] code = "6" -> UNION {matrix_row(a, count) : a \in AskAnswers("matrix")}
      [] code = "7" -> UNION {droplist(a, count) : a \in AskAnswers("dropdown")}
      [] code = "8" -> score
      [] code = "10" -> UNION {numeric_matrix(a, count, {PadLow}) : a \in AskAnswers("numeric_matrix")}
      [] code = "11" -> reorder(count)
      [] OTHER -> {Returns(<<>>, NoFault)}

\* how a handler call can end, for every type code and option count
Verdict(o) == [raised |-> o.raised, fault |-> o.fault]
HandlerVerdicts(code, count) == {Verdict(o) : o \in Handler(code, count)}

Call(op, arg, ok) == [op |-> op, arg |-> arg, ok |-> ok]

\* current += 1
SameQuestion(n) == n
NextQuestion(n) == n + 1

\* the except clause around page.click("#divNext") clicks ctlNext
FallbackAlways(primary_ok) == TRUE
FallbackNeeded(primary_ok) == ~primary_ok

Brusher == MinThreads

\* page.goto(url); original_url = page.url: done or raised
PageGoto ==
    /\ pc[Brusher] = "goto_brush"
    /\ \E raised \in BOOLEAN : Goto(Brusher, IF raised THEN "except" ELSE "generate_persona")
    /\ q_list' = <<>> /\ page_i' = 0 /\ k' = 0 /\ current' = 0
    /\ q_type' = "" /\ fault' = NoFault /\ rows_left' = 0 /\ calls' = <<>>
    /\ UNCHANGED <<handlerVars, waitVars, sanVars, synVars, mainVars, reg, ctx_open, det_true, exc_count>>

\* persona = generate_persona(): it always returns
GeneratePersona ==
    /\ pc[Brusher] = "generate_persona"
    /\ calls' = Append(calls, Call("generate_persona", 0, TRUE))
    /\ Goto(Brusher, "detect")
    /\ UNCHANGED <<handlerVars, waitVars, sanVars, synVars, mainVars, reg, ctx_open, det_true, exc_count,
                   q_list, page_i, k, current, q_type, fault, rows_left>>

\* q_list = detect(page); current = 0
Detect ==
    /\ pc[Brusher] = "detect"
    /\ q_list' \in QLists
    /\ current' = 0
    /\ page_i' = 1
    /\ k' = 0
    /\ Goto(Brusher, "for_page")
    /\ UNCHANGED <<handlerVars, waitVars, sanVars, synVars, mainVars, reg, ctx_open, det_true, exc_count,
                   q_type, fault, rows_left, calls>>

\* for j in q_list: for k in range(1, j + 1): current += 1, or the end of a loop
ForPage ==
    /\ pc[Brusher] = "for_page"
    /\ q_type' = ""
    /\ fault' = NoFault
    /\ IF page_i > Len(q_list)
       THEN /\ Goto(Brusher, "submit")
            /\ UNCHANGED <<handlerVars, waitVars, k, current>>
       ELSE IF k < q_list[page_i]
            THEN /\ k' = k + 1
                 /\ current' = NextQuestion(current)
                 /\ Goto(Brusher, "question")
            ELSE /\ Goto(Brusher, "next")
                 /\ UNCHANGED <<handlerVars, waitVars, k, current>>
    /\ UNCHANGED <<handlerVars, waitVars, sanVars, synVars, mainVars, reg, ctx_open, det_true, exc_count,
                   q_list, page_i, rows_left, calls>>

\* q_type = page.get_attribute(f"#div{current}", "type") raises, or gives a
\* code and the handler of that code runs; matrix counts its rows and has
\* ask_ai_for_answer and the page actions once for each row
Question ==
    /\ pc[Brusher] = "question"
    /\ calls' = Append(calls, Call("question", current, TRUE))
    /\ \/ /\ fault' = SelectorMissing
          /\ Goto(Brusher, "except")
          /\ UNCHANGED <<handlerVars, waitVars, q_type, rows_left>>
       \/ /\ q_type' = "6"
          /\ rows_left' \in 0..MaxOptions
          /\ Goto(Brusher, "matrix")
          /\ UNCHANGED fault
       \/ /\ q_type' \in TypeCodes \ {"6"}
          /\ \E count \in 0..MaxOptions : \E o \in HandlerVerdicts(q_type', count) :
                /\ fault' = o.fault
                /\ Goto(Brusher, IF o.raised THEN "except" ELSE "for_page")
          /\ UNCHANGED rows_left
    /\ UNCHANGED <<handlerVars, waitVars, sanVars, synVars, mainVars, reg, ctx_open, det_true, exc_count,
                   q_list, page_i, k, current>>

\* for i in range(1, q_num + 1) in matrix: one row, or the end of the loop
MatrixRow ==
    /\ pc[Brusher] = "matrix"
    /\ IF rows_left = 0
       THEN /\ Goto(Brusher, "for_page")
            /\ UNCHANGED <<handlerVars, waitVars, fault, rows_left>>
       ELSE \E count \in 0..MaxOptions : \E o \in HandlerVerdicts(q_type, count) :
               /\ fault' = IF fault = NoFault THEN o.fault ELSE fault
               /\ rows_left' = IF o.raised THEN rows_left ELSE rows_left - 1
               /\ Goto(Brusher, IF o.raised THEN "except" ELSE "matrix")
    /\ UNCHANGED <<handlerVars, waitVars, sanVars, synVars, mainVars, reg, ctx_open, det_true, exc_count,
                   q_list, page_i, k, current, q_type, calls>>

\* page.click("#divNext"), and when it raises page.click('//*[@id="ctlNext"]'),
\* which may raise too
NextPage ==
    /\ pc[Brusher] = "next"
    /\ \E primary_ok \in BOOLEAN :
          LET tried == Append(calls, Call("divNext", page_i, primary_ok))
          IN  IF FallbackNeeded(primary_ok)
              THEN \E fallback_ok \in BOOLEAN :
                      /\ calls' = Append(tried, Call("ctlNext", page_i, fallback_ok))
                      /\ Goto(Brusher, IF fallback_ok THEN "for_page" ELSE "except")
              ELSE /\ calls' = tried
                   /\ Goto(Brusher, "for_page")
    /\ page_i' = page_i + 1
    /\ k' = 0
    /\ UNCHANGED <<handlerVars, waitVars, sanVars, synVars, mainVars, reg, ctx_open, det_true, exc_count,
                   q_list, current, q_type, fault, rows_left>>

\* submit(page): every step of it swallows its exceptions
Submit ==
    /\ pc[Brusher] = "submit"
    /\ calls' = Append(calls, Call("submit", 0, TRUE))
    /\ Goto(Brusher, "wait_for_completion")
    /\ UNCHANGED <<handlerVars, waitVars, sanVars, synVars, mainVars, reg, ctx_open, det_true, exc_count,
                   q_list, page_i, k, current, q_type, fault, rows_left>>

BrushStep ==
    \/ PageGoto \/ GeneratePersona \/ Detect \/ ForPage \/ Question \/ MatrixRow
    \/ NextPage \/ Submit

\* ------------------------------------------------------------------------
\* One call of a question handler, on a page with h_count options
\* ------------------------------------------------------------------------
MaxChoices == 5
MaxRows == 2

HandlerIdle ==
    /\ h_pc = "idle" /\ h_name = "" /\ h_asked = <<>> /\ h_count = 0 /\ h_rows = 0
    /\ h_out = Returns(<<>>, NoFault)

HandlerNames ==
    {"vacant", "single", "scale", "droplist", "multiple", "matrix", "numeric_matrix",
     "reorder", "score"}

\* the question_type a handler passes to ask_ai_for_answer
AskType(name) ==
    CASE name = "vacant" -> "text"
      [] name = "droplist" -> "dropdown"
      [] OTHER -> name

\* reorder and the code of q_type 8 do not call ask_ai_for_answer
Asks(name) == name \notin {"reorder", "score"}

\* completions the LLM may give to a handler's request
HandlerTexts ==
    {<<"3">>, <<"9">>, <<"1">>, <<"a", " ", "3">>, <<"a">>, <<"2", ",", "4", ",", "7">>,
     <<"3", ",", "3", ",", "3">>, <<"1", "2", ",", "a", ",", "3">>,
     <<"2", ",", " ", "1">>, <<",", "3">>, <<"2", ",", "2">>}

\* what ask_ai_for_answer then returns to the handler
HandlerAnswers(qtype) ==
    {Sanitized(t) : t \in {u \in HandlerTexts :
                              /\ ~AnswerEmpty(Sanitized(u))
                              /\ ~SelectionRejected(qtype, Sanitized(u))}}
        \cup {FallbackAnswer(qtype)}

\* the handlers that ask once and act once
Apply(name, answer, count) ==
    CASE name = "vacant" -> vacant(answer)
      [] name = "single" -> single(answer, count)
      [] name = "scale" -> scale(answer, count)
      [] name = "droplist" -> droplist(answer, count)
      [] name = "multiple" -> multiple(answer, count)
      [] name = "numeric_matrix" -> numeric_matrix(answer, count, {PadLow, PadHigh})
      [] name = "reorder" -> reorder(count)
      [] name = "score" -> score

HandlerInit ==
    /\ h_pc = "called"
    /\ h_name \in HandlerNames
    /\ h_count \in 0..MaxChoices
    /\ h_rows \in (IF h_name = "matrix" THEN 0..MaxRows ELSE {0})
    /\ h_asked = <<>>
    /\ h_out = Returns(<<>>, NoFault)

HandleCall ==
    /\ h_pc = "called"
    /\ h_name # "matrix"
    /\ \E answer \in (IF Asks(h_name) THEN HandlerAnswers(AskType(h_name)) ELSE {<<>>}) :
          /\ h_asked' = IF Asks(h_name) THEN <<answer>> ELSE <<>>
          /\ h_out' \in Apply(h_name, answer, h_count)
    /\ h_pc' = "ended"
    /\ UNCHANGED <<waitVars, sanVars, mainVars, runVars, synVars, brushVars, h_name, h_count,
                   h_rows>>

\* matrix: for i in range(1, q_num + 1), ask_ai_for_answer and one click
HandleMatrixRow ==
    /\ h_pc = "called"
    /\ h_name = "matrix"
    /\ Len(h_asked) < h_rows
    /\ \E answer \in HandlerAnswers(AskType(h_name)) :
       \E o \in matrix_row(answer, h_count) :
          /\ h_asked' = Append(h_asked, answer)
          /\ h_out' = [raised |-> o.raised, acts |-> h_out.acts \o o.acts,
                       fault |-> IF o.fault = ClickMissing \/ h_out.fault = NoFault
                                 THEN o.fault
                                 ELSE h_out.fault]
          /\ h_pc' = IF o.raised THEN "ended" ELSE "called"
    /\ UNCHANGED <<waitVars, sanVars, mainVars, runVars, synVars, brushVars, h_name, h_count,
                   h_rows>>

HandleMatrixEnd ==
    /\ h_pc = "called"
    /\ h_name = "matrix"
    /\ Len(h_asked) = h_rows
    /\ h_pc' = "ended"
    /\ UNCHANGED <<waitVars, sanVars, mainVars, runVars, synVars, brushVars, h_name, h_asked,
                   h_count, h_rows, h_out>>

HandlerNext == HandleCall \/ HandleMatrixRow \/ HandleMatrixEnd

\* ------------------------------------------------------------------------
\* wait_for_completion: the polls of the page after submit
\* ------------------------------------------------------------------------
\* time is counted in hundredths of a second: check_interval = 0.03, and
\* time.sleep(0.01) after a poll that raised
MaxWait == 7
CheckInterval == 3
RetryInterval == 1

\* what a poll looks for: the location differs from original_url, the
\* location holds a keyword, an element, the text or the title shows completion
Signals == {"moved", "keyword", "element", "text", "title"}

\* the reads of the page a poll makes; each may raise.  title_log is the
\* second page.title() call, made for the log line once the title matched
Reads == {"url", "element", "text", "title", "title_log"}

\* the time the reads of one poll take, on top of the sleep
ReadTime == {0, 1}

WaitIdle ==
    /\ w_pc = "idle" /\ w_max = 0 /\ w_elapsed = 0 /\ w_page = {} /\ w_result = FALSE
    /\ w_polls = 0 /\ w_first = 0 /\ w_raised = FALSE

WaitInit ==
    /\ w_pc = "precheck"
    /\ w_max \in 0..MaxWait
    /\ w_elapsed = 0
    /\ w_page \in SUBSET Signals
    /\ w_result = FALSE
    /\ w_polls = 0
    /\ w_first = 0
    /\ w_raised = FALSE

\* current_url != original_url
LocationIgnored(page) == FALSE
LocationChanged(page) == "moved" \in page

\* one pass of the while body on the page, the reads in errs raising: it
\* returns True ("true"), sleeps check_interval ("sleep") or lands in the
\* outer except clause ("retry"); raised tells whether a read it made raised
Seen(page, errs, read) == read \in page /\ read \notin errs
TitleSeen(page, errs) == Seen(page, errs, "title") /\ "title_log" \notin errs

Poll(page, errs) ==
    IF "url" \in errs THEN [out |-> "retry", raised |-> TRUE]
    ELSE IF LocationChanged(page) \/ "keyword" \in page
    THEN [out |-> "true", raised |-> FALSE]
    ELSE IF Seen(page, errs, "element")
    THEN [out |-> "true", raised |-> FALSE]
    ELSE IF Seen(page, errs, "text")
    THEN [out |-> "true", raised |-> "element" \in errs]
    ELSE IF TitleSeen(page, errs)
    THEN [out |-> "true", raised |-> errs \cap {"element", "text"} # {}]
    ELSE [out |-> "sleep",
          raised |-> \/ errs \cap {"element", "text", "title"} # {}
                     \/ Seen(page, errs, "title")]

WaitReturn(value) ==
    /\ w_pc' = "returned"
    /\ w_result' = value

Later(t) == IF w_elapsed + t > w_max THEN w_max ELSE w_elapsed + t

\* the check of the location before the loop, in a try block of its own
PreCheck ==
    /\ w_pc = "precheck"
    /\ \E raised \in BOOLEAN :
          /\ w_raised' = raised
          /\ IF ~raised /\ LocationChanged(w_page)
             THEN WaitReturn(TRUE)
             ELSE w_pc' = "loop" /\ UNCHANGED w_result
    /\ UNCHANGED <<handlerVars, sanVars, mainVars, runVars, synVars, brushVars, w_max,
                   w_elapsed, w_page, w_polls, w_first>>

\* while time.time() - start_time < max_wait_time
TimeTest ==
    /\ w_pc = "loop"
    /\ w_pc' = IF w_elapsed < w_max THEN "poll" ELSE "final"
    /\ UNCHANGED <<handlerVars, sanVars, mainVars, runVars, synVars, brushVars, w_max,
                   w_elapsed, w_page, w_result, w_polls, w_first, w_raised>>

\* the body of the loop
PollPage ==
    /\ w_pc = "poll"
    /\ w_polls' = w_polls + 1
    /\ w_first' = IF w_first = 0 /\ w_page # {} THEN w_polls + 1 ELSE w_first
    /\ \E errs \in SUBSET Reads : \E took \in ReadTime :
          LET poll == Poll(w_page, errs)
          IN  /\ w_raised' = (w_raised \/ poll.raised)
              /\ IF poll.out = "true"
                 THEN WaitReturn(TRUE) /\ UNCHANGED w_elapsed
                 ELSE /\ w_pc' = "loop"
                      /\ w_elapsed' = Later(took + IF poll.out = "sleep" THEN CheckInterval
                                                   ELSE RetryInterval)
                      /\ UNCHANGED w_result
    /\ UNCHANGED <<handlerVars, sanVars, mainVars, runVars, synVars, brushVars, w_max, w_page>>

\* the page changes while the function sleeps, or right at the deadline
PageChange ==
    /\ w_pc \in {"loop", "final"}
    /\ w_page' \in (SUBSET Signals) \ {w_page}
    /\ UNCHANGED <<handlerVars, sanVars, mainVars, runVars, synVars, brushVars, w_pc, w_max,
                   w_elapsed, w_result, w_polls, w_first, w_raised>>

\* after the loop: final_url = page.url, in a try block of its own
FinalCheck ==
    /\ w_pc = "final"
    /\ \E raised \in BOOLEAN :
          /\ w_raised' = (w_raised \/ raised)
          /\ WaitReturn(~raised /\ LocationChanged(w_page))
    /\ UNCHANGED <<handlerVars, sanVars, mainVars, runVars, synVars, brushVars, w_max,
                   w_elapsed, w_page, w_polls, w_first>>

WaitNext == PreCheck \/ TimeTest \/ PollPage \/ PageChange \/ FinalCheck

Stopped(w) == pc[w] \in {"done", "quit"}
AllStopped == \A w \in Threads : Stopped(w)

\* ------------------------------------------------------------------------
\* Specifications
\* ------------------------------------------------------------------------
\* clean_response alone
SanNext == CleanOnce \/ CleanTwice
SanSpecInit == SanInit /\ RunIdle /\ SynIdle /\ BrushIdle /\ HandlerIdle /\ WaitIdle
SanSpec == SanSpecInit /\ [][SanNext]_vars

\* clean_response on texts with a reasoning span
SpanSpecInit == SpanInit /\ RunIdle /\ SynIdle /\ BrushIdle /\ HandlerIdle /\ WaitIdle
SpanSpec == SpanSpecInit /\ [][SanNext]_vars

\* one handler call
HandlerSpecInit == SanIdle /\ RunIdle /\ SynIdle /\ BrushIdle /\ HandlerInit /\ WaitIdle
HandlerSpec == HandlerSpecInit /\ [][HandlerNext]_vars

\* one call of wait_for_completion
WaitSpecInit == SanIdle /\ RunIdle /\ SynIdle /\ BrushIdle /\ HandlerIdle /\ WaitInit
WaitSpec == WaitSpecInit /\ [][WaitNext]_vars

\* generate_persona and ask_ai_for_answer alone
SynNext == PersonaAttempt \/ PersonaLoopEnd \/ AnswerAttempt \/ AnswerLoopEnd
SynSpecInit == SanIdle /\ RunIdle /\ SynInit /\ BrushIdle /\ HandlerIdle /\ WaitIdle
SynSpec == SynSpecInit /\ [][SynNext]_vars

\* the threads of __main__, brush taken as one step
Init ==
    /\ SanIdle
    /\ SynIdle
    /\ BrushIdle
    /\ HandlerIdle
    /\ WaitIdle
    /\ \E threads \in MinThreads..MaxThreads :
       \E target \in MinTarget..(IF threads = 1 THEN MaxTargetSingle ELSE MaxTarget) :
          MainInit(threads, target)

Worker(w) == RunStep(w) \/ GotoBrush(w)
Next == \E w \in MinThreads..MaxThreads : Worker(w)
Spec == Init /\ [][Next]_vars

\* one thread, with brush and submit step by step
SessInit ==
    /\ SanIdle
    /\ SynIdle
    /\ BrushIdle
    /\ HandlerIdle
    /\ WaitIdle
    /\ MainInit(MinThreads, MinTarget)

SessNext == RunStep(Brusher) \/ BrushStep
SessSpec == SessInit /\ [][SessNext]_vars

\* the same with every thread scheduled again and again
FairSpec == Spec /\ \A w \in MinThreads..MaxThreads : WF_vars(Worker(w))

\* ------------------------------------------------------------------------
\* Properties of run and __main__
\* ------------------------------------------------------------------------
OpensSession(w) == ~ctx_open[w] /\ ctx_open'[w]

\* C1: once a thread has tripped the circuit breaker (cur_fail reached the
\* failure budget and it executed quit()), the whole process is over: no
\* thread opens a new session any more.
C1_NoSessionAfterTrip ==
    [][(\E v \in Threads : pc[v] = "quit") => \A w \in Threads : ~OpensSession(w)]_vars

\* threads that got True from wait_for_completion and have not stored cur_num yet
Incrementing == {w \in Threads : pc[w] \in {"num_load", "num_store"}}

\* C2: cur_num counts exactly the sessions whose wait_for_completion call
\* returned True (those whose increment is still under way are allowed for):
\* no increment is lost or duplicated under any interleaving.
C2_CompletedCountsDetections == cur_num + Cardinality(Incrementing) = det_true

\* C22: with any number of threads cur_num never exceeds target_num: no
\* more than target_num submissions are recorded.
C22_CompletedNeverExceedsTarget == cur_num <= target_num

\* C23: a session is counted at most once: a thread that has incremented
\* cur_num for its session does not enter the except clause of run, where
\* cur_fail is incremented, for that same session.
C23_SessionCountedOnce ==
    [][\A w \in Threads : pc[w] = "num_store" => pc'[w] # "except"]_vars

\* threads that hold the lock and have not stored cur_fail yet
FailCounting == {w \in Threads : pc[w] \in {"fail_load", "fail_store"}}

\* C15: cur_fail is updated with the lock held: under any interleaving it is
\* exactly the number of sessions that ended in the except clause of run
\* (those whose increment is under way are allowed for), and it never
\* decreases.
C15_FailedCountsExceptions ==
    /\ [](cur_fail + Cardinality(FailCounting) = exc_count)
    /\ [](Cardinality(FailCounting) <= 1)
    /\ [][cur_fail' >= cur_fail]_vars

C15_Witness ==
    /\ num_threads = 2
    /\ pc[1] = "lock_release"
    /\ lock = 1
    /\ pc[2] = "except"
    /\ cur_fail = 2
    /\ exc_count = 2

\* thread w takes a step from the statement named label
Leaves(w, label) == pc[w] = label /\ pc'[w] # label

CountersKept == cur_num' = cur_num /\ cur_fail' = cur_fail

\* C16: when wait_for_completion returns False, the thread changes neither
\* cur_num nor cur_fail: it logs the warning, calls context.close(), which
\* closes the session, and goes back to the test of its loop.  (When
\* context.close() raises, here as after a success, the thread goes to the
\* except clause of run instead.)
C16_SoftFailureKeepsCounters ==
    [][\A w \in Threads :
          /\ (Leaves(w, "wait_for_completion") /\ pc'[w] = "warn") =>
                (CountersKept /\ ctx_open'[w])
          /\ Leaves(w, "warn") =>
                (CountersKept /\ ctx_open'[w] /\ pc'[w] = "context_close")
          /\ Leaves(w, "context_close") =>
                /\ CountersKept
                /\ \/ pc'[w] = "loop" /\ ~ctx_open'[w]
                   \/ pc'[w] = "except" /\ ctx_open'[w]
          /\ (Leaves(w, "loop") /\ cur_num < target_num) => pc'[w] = "new_context"]_vars

C16_Witness ==
    /\ num_threads = 2
    /\ pc[1] = "warn"
    /\ ctx_open[1]
    /\ pc[2] = "loop"
    /\ det_true = 0
    /\ cur_num = 0
    /\ cur_fail = 1

\* C17: a thread has at most one session open: whenever it is about to open
\* a session (browser.new_context) the one before has been closed, after a
\* success, a soft failure and a counted failure alike, and a thread that
\* stops, by leaving the loop or by quit() when the budget trips, has closed
\* its session.
C17_SessionClosedBeforeNext ==
    \A w \in Threads : pc[w] \in {"loop", "new_context", "done", "quit"} => ~ctx_open[w]

C17_Witness ==
    /\ num_threads = 2
    /\ pc[1] = "quit"
    /\ pc[2] = "done"
    /\ ~ctx_open[1]
    /\ ~ctx_open[2]
    /\ det_true = 1
    /\ exc_count = 2

\* C3 as claimed: under fair scheduling every run ends, all threads stopped.
C3_AlwaysTerminates == <>AllStopped

SoftFailing == \E w \in Threads : pc[w] = "warn"

\* C3 as amended: under fair scheduling a run in which wait_for_completion
\* returns False only finitely often ends: every thread leaves its loop
\* (cur_num >= target_num when it tested) or stops in quit().
C3_TerminatesUnlessSoftFailing == ([]<>SoftFailing) \/ <>AllStopped

C3_Witness ==
    /\ num_threads = 2
    /\ AllStopped
    /\ \E w \in Threads : pc[w] = "done"
    /\ \E w \in Threads : pc[w] = "quit"
    /\ cur_num >= target_num

\* C4: with one thread, the breaker trips on exactly the failure that first
\* makes cur_fail >= target_num / 4 + 1 (4 * cur_fail >= target_num + 4) and
\* no session starts after it; for target_num = 8 that is the 3rd failure.
C4_BudgetTripsOnFirstReach ==
    num_threads = 1 =>
        /\ pc[1] = "quit" =>
              /\ 4 * cur_fail >= target_num + 4
              /\ 4 * (cur_fail - 1) < target_num + 4
        /\ 4 * cur_fail >= target_num + 4 =>
              pc[1] \in {"lock_release", "check_fail", "quit"}
        /\ (target_num = 8 /\ pc[1] = "quit") => cur_fail = 3

C4_Witness ==
    /\ num_threads = 1
    /\ target_num = 8
    /\ pc[1] = "quit"
    /\ cur_fail = 3
    /\ ~ctx_open[1]

\* ------------------------------------------------------------------------
\* Properties of generate_persona, ask_ai_for_answer and clean_response
\* ------------------------------------------------------------------------
Returned(fn) == syn_pc = "returned" /\ callee = fn

\* C5: generate_persona returns an accepted persona (at least 20 characters
\* after sanitizing) or the default persona, never an absent value.
C5_PersonaNeverAbsent ==
    Returned("generate_persona") =>
        /\ ~result.none
        /\ result.text = DefaultPersona \/ CharLen(result.text) >= MinPersonaLen

\* C6 as claimed: for the selection types ask_ai_for_answer returns one
\* integer or the fallback "1".
C6_SelectionAnswerIsInteger ==
    (Returned("ask_ai_for_answer") /\ question_type \in SelectionTypes) =>
        /\ ~result.none
        /\ IsInt(result.text) \/ result.text = <<"1">>

\* C6 as amended: for the selection types ask_ai_for_answer always returns
\* a string, which is the fallback "1" or a non-empty stripped text that
\* holds at least one digit (not necessarily one integer).
C6_SelectionAnswerHasDigit ==
    (Returned("ask_ai_for_answer") /\ question_type \in SelectionTypes) =>
        /\ ~result.none
        /\ \/ result.text = <<"1">>
           \/ /\ result.text # <<>>
              /\ Strip(result.text) = result.text
              /\ HasDigit(result.text)

C6_Witness ==
    /\ Returned("ask_ai_for_answer")
    /\ question_type = "single"
    /\ attempt = 1
    /\ requests = 2
    /\ result = Str(<<"a", " ", "3">>)

\* ask_ai_for_answer returned from inside its loop
ReturnedInLoop == Returned("ask_ai_for_answer") /\ attempt < max_retries

\* ask_ai_for_answer returned after its loop
ReturnedAfterLoop == Returned("ask_ai_for_answer") /\ attempt >= max_retries

\* C18: one call of ask_ai_for_answer makes at most max_retries requests.
\* It returns from the attempt that is the first to give an accepted answer
\* (every request before it was rejected or failed, none follows it), and
\* after max_retries attempts without one it returns "无" for the type text
\* and "1" for every other type.  A type it has no prompt for returns "1"
\* with no request made.
C18_BoundedRequestsThenFallback ==
    callee = "ask_ai_for_answer" =>
        /\ requests <= max_retries
        /\ syn_pc = "loop" => requests = attempt
        /\ (ReturnedInLoop /\ question_type \in PromptTypes) =>
              /\ requests = attempt + 1
              /\ ~result.none
              /\ ~AnswerEmpty(result.text)
              /\ question_type \in SelectionTypes => HasDigit(result.text)
        /\ (ReturnedInLoop /\ question_type \notin PromptTypes) =>
              /\ requests = 0
              /\ result = Str(<<"1">>)
        /\ ReturnedAfterLoop =>
              /\ requests = max_retries
              /\ question_type \in PromptTypes
              /\ result = Str(IF question_type = "text" THEN <<"无">> ELSE <<"1">>)

C18_Witness ==
    /\ ReturnedAfterLoop
    /\ question_type = "text"
    /\ max_retries = 2
    /\ requests = 2
    /\ result = Str(<<"无">>)

\* ------------------------------------------------------------------------
\* Properties of one session: brush, submit and the bookkeeping of run
\* ------------------------------------------------------------------------
\* the steps of run's except clause, up to the test of the failure budget
InExceptClause == pc[Brusher] \in {"except", "fail_load", "fail_store", "lock_release", "check_fail"}

\* C7: a failure while answering one question (selector not found, click
\* target missing, parse failure) is absorbed by the handler: it never
\* reaches run as an exception and is never counted in cur_fail.
C7_QuestionFailureAbsorbed == InExceptClause => fault = NoFault

\* the calls of a session as (operation, argument), the fallback clicks on
\* ctlNext left out
Primary(log) == SelectSeq(log, LAMBDA c : c.op # "ctlNext")
Steps(log) == [i \in 1..Len(log) |-> <<log[i].op, log[i].arg>>]

\* the calls brush makes from page p on when every call returns, done
\* questions having been answered on the pages before
RECURSIVE ExpectedFrom(_, _)
ExpectedFrom(p, done) ==
    IF p > Len(q_list) THEN <<<<"submit", 0>>>>
    ELSE [i \in 1..q_list[p] |-> <<"question", done + i>>]
            \o <<<<"divNext", p>>>>
            \o ExpectedFrom(p + 1, done + q_list[p])

ExpectedCalls == <<<<"generate_persona", 0>>>> \o ExpectedFrom(1, 0)

IsPrefix(a, b) == Len(a) <= Len(b) /\ a = SubSeq(b, 1, Len(a))

\* submit has been called in the session the thread is in
Finalized == pc[Brusher] \in {"wait_for_completion", "num_load", "num_store", "warn"}

\* C8: in one session the questions 1..(n1+...+nP) are answered once each,
\* in ascending order and page by page; submit is called only after the
\* last question, wait_for_completion only after submit, and cur_num grows
\* by exactly one when wait_for_completion returns True.
C8_SessionCallOrder ==
    /\ IsPrefix(Steps(Primary(calls)), ExpectedCalls)
    /\ Finalized => Steps(Primary(calls)) = ExpectedCalls
    /\ pc[Brusher] = "wait_for_completion" => calls[Len(calls)].op = "submit"
    /\ cur_num + Cardinality(Incrementing) = det_true
    /\ pc[Brusher] = "warn" => cur_num = det_true

C8_Witness ==
    /\ q_list = <<2, 1>>
    /\ pc[Brusher] = "context_close"
    /\ cur_num = 1
    /\ det_true = 1
    /\ exc_count = 0
    /\ Steps(calls) = <<<<"generate_persona", 0>>, <<"question", 1>>, <<"question", 2>>,
                        <<"divNext", 1>>, <<"question", 3>>, <<"divNext", 2>>,
                        <<"submit", 0>>>>

\* the clicks on #divNext made so far in the session
Advances == SelectSeq(calls, LAMBDA c : c.op = "divNext")

\* C9 as claimed: for P pages brush advances P - 1 times before submit,
\* once for a 2-page questionnaire.
C9_AdvancesBetweenPages ==
    (Finalized /\ Len(q_list) >= 1) => Len(Advances) = Len(q_list) - 1

\* C9 as amended: brush clicks #divNext once after the questions of every
\* page, the last page included (P times for P pages, twice for a 2-page
\* questionnaire), before submit; ctlNext is clicked only right after the
\* click on #divNext of the same page has raised, and then always.
C9_AdvancesAfterEveryPage ==
    /\ Steps(Advances) = [p \in 1..Len(Advances) |-> <<"divNext", p>>]
    /\ Len(Advances) <= Len(q_list)
    /\ Finalized => Len(Advances) = Len(q_list)
    /\ \A i \in 1..Len(calls) :
          /\ calls[i].op = "ctlNext" =>
                i > 1 /\ calls[i - 1] = Call("divNext", calls[i].arg, FALSE)
          /\ (calls[i].op = "divNext" /\ ~calls[i].ok) =>
                i < Len(calls) /\ calls[i + 1].op = "ctlNext"

C9_Witness ==
    /\ q_list = <<2, 1>>
    /\ pc[Brusher] = "wait_for_completion"
    /\ Primary(calls) # calls
    /\ Advances = <<Call("divNext", 1, TRUE), Call("divNext", 2, FALSE)>>

\* C10: clean_response is idempotent.
C10_SanitizeIdempotent == san_pc = "recleaned" => recleaned = cleaned

\* C11: when the text holds a reasoning span (<think> ... </think>, the
\* content possibly holding further markers), no part of the span's
\* content is in what clean_response returns; here only the content of the
\* span holds the character "a".
C11_SpanContentRemoved == san_pc \in {"cleaned", "recleaned"} => ~Contains(cleaned, <<"a">>)

\* ------------------------------------------------------------------------
\* Properties of one handler call
\* ------------------------------------------------------------------------
Ended(names) == h_pc = "ended" /\ h_name \in names

\* a page.click of the handler raised
ClickRaised == h_out.raised \/ h_out.fault = ClickMissing

\* C12: single, scale and droplist, on a page with n >= 1 options and the
\* answer a: exactly one click, on option c when a is an integer c with
\* 1 <= c <= n and on option 1 otherwise ("3" of 5 options clicks option 3,
\* "9" and a text that is no integer click option 1).  That is what happens
\* when no page.click raises; when the click of the try block raises the
\* one click is on option 1, and when a click raises with no handler
\* around it, nothing is clicked.
C12_OneSelectInRangeElseFirst ==
    (Ended({"single", "scale", "droplist"}) /\ h_count >= 1) =>
        LET a == h_asked[1]
            in_range == IsInt(a) /\ 1 <= IntOf(a) /\ IntOf(a) <= h_count
        IN  /\ ~ClickRaised => h_out.acts = <<Click(IF in_range THEN IntOf(a) ELSE 1)>>
            /\ (~ClickRaised /\ h_count = 5 /\ a = <<"3">>) => h_out.acts = <<Click(3)>>
            /\ (~ClickRaised /\ h_count = 5 /\ a \in {<<"9">>, <<"a", " ", "3">>}) =>
                  h_out.acts = <<Click(1)>>
            /\ (ClickRaised /\ ~h_out.raised) => h_out.acts = <<Click(1)>>
            /\ h_out.raised => h_out.acts = <<>>

C12_Witness ==
    /\ Ended({"single"})
    /\ h_count = 5
    /\ h_asked = <<<<"3">>>>
    /\ h_out = Returns(<<Click(3)>>, NoFault)

\* the column the answer of a matrix row names, or column 2
RowColumn(a) ==
    IF IsInt(a) /\ 2 <= IntOf(a) /\ IntOf(a) <= h_count THEN IntOf(a) ELSE 2

\* C19: matrix, on a table of h_rows rows whose first row has h_count >= 2
\* cells: every click is on a column in 2..h_count, never on column 1, and
\* there is at most one click per row.  When no page.click raises there is
\* exactly one click per row 1..h_rows, on column c when the answer of the
\* row is an integer c with 2 <= c <= h_count and on column 2 otherwise
\* (the answer "1" clicks column 2).  When the click of a try block raises,
\* the click of that row is on column 2; when a click raises with no
\* handler around it, that row and the rows after it get no click.
C19_MatrixRowsSelectOneColumn ==
    (Ended({"matrix"}) /\ h_count >= 2) =>
        /\ \A i \in 1..Len(h_out.acts) :
              /\ h_out.acts[i].op = "click"
              /\ 2 <= h_out.acts[i].idx
              /\ h_out.acts[i].idx <= h_count
              /\ h_out.acts[i] \in {Click(RowColumn(h_asked[i])), Click(2)}
        /\ ~h_out.raised => (Len(h_asked) = h_rows /\ Len(h_out.acts) = h_rows)
        /\ h_out.raised => Len(h_out.acts) = Len(h_asked) - 1
        /\ ~ClickRaised =>
              \A i \in 1..h_rows :
                 /\ h_out.acts[i] = Click(RowColumn(h_asked[i]))
                 /\ h_asked[i] = <<"1">> => h_out.acts[i] = Click(2)

C19_Witness ==
    /\ Ended({"matrix"})
    /\ h_count = 3
    /\ h_rows = 2
    /\ h_asked = << <<"1">>, <<"3">> >>
    /\ h_out = Returns(<<Click(2), Click(3)>>, NoFault)

\* the list of a sort question after the item at position b was selected
\* as the j-th: it moves to position j, the front of the items not yet ranked
MoveToFront(order, j, b) ==
    [i \in 1..Len(order) |->
        IF i = j THEN order[b]
        ELSE IF j < i /\ i <= b THEN order[i - 1]
        ELSE order[i]]

\* the list of items 1..h_count after the first n clicks of the call
RECURSIVE OrderAfter(_)
OrderAfter(n) ==
    IF n = 0 THEN [i \in 1..h_count |-> i]
    ELSE MoveToFront(OrderAfter(n - 1), n, h_out.acts[n].idx)

\* the item the n-th click of the call selected
Selected(n) == OrderAfter(n - 1)[h_out.acts[n].idx]

\* the items ranked by the first n clicks
Ranked(n) == {Selected(m) : m \in 1..n}

\* C21: reorder, on a list of h_count items, calls ask_ai_for_answer never
\* and clicks once for each j in 1..h_count, the j-th click on a position in
\* j..h_count.  Given that a selected item moves to the front of the items
\* not yet ranked, no click is on an item ranked before, every item is
\* selected exactly once and the final list is a permutation of the items.
\* That is the call in which no page.click raises; when the j-th raises, the
\* clicks before it are as above and none follows.
C21_ReorderSelectsEachItemOnce ==
    Ended({"reorder"}) =>
        /\ h_asked = <<>>
        /\ Len(h_out.acts) <= h_count
        /\ \A j \in 1..Len(h_out.acts) :
              /\ h_out.acts[j].op = "click"
              /\ j <= h_out.acts[j].idx
              /\ h_out.acts[j].idx <= h_count
              /\ Selected(j) \notin Ranked(j - 1)
              /\ \A i \in 1..j : OrderAfter(j)[i] = Selected(i)
        /\ h_out.raised <=> Len(h_out.acts) < h_count
        /\ ~h_out.raised =>
              /\ Ranked(h_count) = 1..h_count
              /\ \A i, j \in 1..h_count : Selected(i) = Selected(j) => i = j
              /\ {OrderAfter(h_count)[i] : i \in 1..h_count} = 1..h_count

C21_Witness ==
    /\ Ended({"reorder"})
    /\ h_count = 3
    /\ h_out = Returns(<<Click(2), Click(3), Click(3)>>, NoFault)
    /\ OrderAfter(3) = <<2, 3, 1>>
    /\ Selected(3) = 1

\* the comma-separated pieces of the answer that pass the digit filter
Numbers == SelectSeq(SplitComma(h_asked[1]), IsDigits)

\* a piece's value brought into [0, 10]
InBounds(piece) == IF IntOf(piece) > ClampHigh THEN ClampHigh ELSE IntOf(piece)

\* the call filled every cell once, in order, and nothing raised
FilledOnce ==
    /\ Ended({"numeric_matrix"})
    /\ h_count >= 1
    /\ h_out.fault = NoFault

Pieces == SplitComma(h_asked[1])
Listed == {IntOf(Pieces[i]) : i \in {j \in 1..Len(Pieces) : IsInt(Pieces[j])}}
Clicked == {h_out.acts[i].idx : i \in 1..Len(h_out.acts)}

\* C13 as claimed: multiple clicks every listed value in 1..n, ignores the
\* others, and clicks option 1 as a fallback only when no piece of the
\* answer parses (no page.click raising).
C13_SelectsEveryListedValue ==
    (Ended({"multiple"}) /\ ~ClickRaised) =>
        /\ \A v \in Listed : (1 <= v /\ v <= h_count) => v \in Clicked
        /\ \A v \in Clicked : v \in Listed \/ (v = 1 /\ Listed = {})

\* C13 as amended: when every comma-separated piece of the answer is an
\* integer, multiple clicks the values in 1..n in the order listed and
\* nothing else ("2,4,7" of 5 options: options 2 and 4); when any piece is
\* no integer the whole list is dropped and the one click is on option 1.
\* When a page.click raises, the clicks made so far are followed by the
\* fallback click on option 1, or by nothing when that raises too.
C13_SelectsListOrFallsBack ==
    Ended({"multiple"}) =>
        LET parsed == \A i \in 1..Len(Pieces) : IsInt(Pieces[i])
            values == [i \in 1..Len(Pieces) |-> IntOf(Pieces[i])]
            wanted == SelectSeq(values, LAMBDA v : v \in 1..h_count)
            clicks == [i \in 1..Len(wanted) |-> Click(wanted[i])]
            last == IF h_out.raised THEN <<>> ELSE <<Click(1)>>
        IN  /\ (~ClickRaised /\ parsed) => h_out.acts = clicks
            /\ (~ClickRaised /\ ~parsed) => h_out.acts = <<Click(1)>>
            /\ (~ClickRaised /\ h_count = 5 /\ h_asked[1] = <<"2", ",", "4", ",", "7">>) =>
                  h_out.acts = <<Click(2), Click(4)>>
            /\ (ClickRaised /\ parsed) =>
                  \E m \in 0..(Len(wanted) - 1) : h_out.acts = Prefix(clicks, m) \o last
            /\ (ClickRaised /\ ~parsed) => (h_out.raised /\ h_out.acts = <<>>)

C13_Witness ==
    /\ Ended({"multiple"})
    /\ h_count = 5
    /\ h_asked = <<<<"2", ",", "4", ",", "7">>>>
    /\ h_out = Returns(<<Click(2), Click(4)>>, NoFault)

\* the options left in the selected state by the clicks of the call, a click
\* on an option toggling it
Checked ==
    {v \in 1..h_count :
        Cardinality({i \in 1..Len(h_out.acts) : h_out.acts[i].idx = v}) % 2 = 1}

\* C24: when multiple returns on a question with n >= 1 options, at least
\* one option is in the selected state, whatever the answer was.
C24_MultipleLeavesOneSelected ==
    (Ended({"multiple"}) /\ h_count >= 1 /\ ~h_out.raised) => Checked # {}

\* ------------------------------------------------------------------------
\* Properties of wait_for_completion
\* ------------------------------------------------------------------------
WaitReturned == w_pc = "returned"

\* C14: wait_for_completion returns True at the first poll at which the
\* page shows a completion signal, before the timeout (a location change
\* partway through the window is reported by the next poll), and returns
\* False only after the timeout, when no poll found a signal and the
\* location read after the loop equals original_url.  Every read of the
\* page is in a try block, so the call always returns; a read that raises
\* is skipped, and what the call then answers is bounded by the last three
\* conjuncts.
C14_TrueAtFirstSignal ==
    /\ (w_first # 0 /\ ~w_raised) =>
          (WaitReturned /\ w_result /\ w_polls = w_first /\ w_elapsed < w_max)
    /\ (WaitReturned /\ ~w_result /\ ~w_raised) => (w_first = 0 /\ "moved" \notin w_page)
    /\ (WaitReturned /\ ~w_result) => w_elapsed >= w_max
    /\ (WaitReturned /\ w_result) =>
          \/ "moved" \in w_page
          \/ (w_page # {} /\ w_first # 0 /\ w_polls >= w_first /\ w_elapsed < w_max)
    /\ w_pc \in {"precheck", "loop", "poll", "final", "returned"}

C14_Witness ==
    /\ WaitReturned
    /\ w_result
    /\ ~w_raised
    /\ w_max = MaxWait
    /\ w_page = {"moved"}
    /\ w_polls = 2
    /\ w_first = 2
    /\ w_elapsed = CheckInterval

====
